---------------------------- MODULE Spec2Model ----------------------------
(***************************************************************************)
(* A model of summarizer.py: the MeetingSummarizer class (its constructor, *)
(* transcribe_audio and summarize_transcript) and the __main__ run that    *)
(* drives it.                                                              *)
(*                                                                         *)
(* A Python str is a sequence of one-character strings, so that the        *)
(* substring tests of the run ("Error" in transcript_text, "error" in      *)
(* summary_output) and the f-string concatenations are computed as the     *)
(* code computes them.  A Python value decoded from JSON is a record       *)
(* [type, s, items].  The speech model, the decoder, the language-model    *)
(* client and the remote call are external: each is a nondeterministic     *)
(* choice over the outcomes it can have.                                   *)
(***************************************************************************)
EXTENDS Naturals, Sequences, FiniteSets

VARIABLES
    pc,              \* position of the caller
    env,             \* the outcomes the constructor met
    asr_model,       \* self.asr_model: "None" or "Model"
    gemini_client,   \* self.gemini_client: "None" or "Client"
    transcript_text, \* the value the last transcribe_audio returned
    tr_via,          \* the return statement the last transcribe_audio took
    summary_output,  \* the value the last summarize_transcript returned
    exc,             \* the exception that left the last call, or "none"
    transcribeCalls, \* invocations of transcribe_audio
    summarizeCalls,  \* invocations of summarize_transcript
    decoderCalls,    \* invocations of asr_model.transcribe
    genCalls,        \* invocations of models.generate_content
    lastCall         \* the last invocation: method, argument, external calls

vars == <<pc, env, asr_model, gemini_client, transcript_text, tr_via,
          summary_output, exc, transcribeCalls, summarizeCalls, decoderCalls,
          genCalls, lastCall>>

\* The number of method invocations a caller makes on one object in SpecCalls.
MaxCalls == 3

(***************************************************************************)
(* Program constants and string literals                                   *)
(***************************************************************************)
\* The needle of the gate at line 124: "Error" in transcript_text.
ErrorWord ==
    <<"E", "r", "r", "o", "r">>

\* The fixed return of transcribe_audio when asr_model is None (line 42).
NotLoadedMsg ==
    <<"T", "r", "a", "n", "s", "c", "r", "i", "p", "t", "i", "o", "n", " ",
    "f", "a", "i", "l", "e", "d", " ", "d", "u", "e", " ", "t", "o", " ",
    "m", "o", "d", "e", "l", " ", "l", "o", "a", "d", "i", "n", "g", " ",
    "e", "r", "r", "o", "r", ".">>

\* f"Error during transcription: {e}" (line 53).
DecodeErrPrefix ==
    <<"E", "r", "r", "o", "r", " ", "d", "u", "r", "i", "n", "g", " ", "t",
    "r", "a", "n", "s", "c", "r", "i", "p", "t", "i", "o", "n", ":", " ">>

\* The key of every error result, and the needle of line 135.
ErrorKey ==
    <<"e", "r", "r", "o", "r">>

ClientNotInitMsg ==
    <<"L", "L", "M", " ", "c", "l", "i", "e", "n", "t", " ", "n", "o", "t",
    " ", "i", "n", "i", "t", "i", "a", "l", "i", "z", "e", "d", ".", " ",
    "C", "h", "e", "c", "k", " ", "A", "P", "I", " ", "K", "e", "y", ".">>

ApiErrPrefix ==
    <<"L", "L", "M", " ", "A", "P", "I", " ", "E", "r", "r", "o", "r", ":",
    " ">>

InvalidJsonMsg ==
    <<"L", "L", "M", " ", "d", "i", "d", " ", "n", "o", "t", " ", "r", "e",
    "t", "u", "r", "n", " ", "v", "a", "l", "i", "d", " ", "J", "S", "O",
    "N", ".">>

UnexpectedPrefix ==
    <<"U", "n", "e", "x", "p", "e", "c", "t", "e", "d", " ", "e", "r", "r",
    "o", "r", ":", " ">>

\* str(e) of the TypeError that json.loads raises when response.text is None.
NoneTypeMsg ==
    <<"t", "h", "e", " ", "J", "S", "O", "N", " ", "o", "b", "j", "e", "c",
    "t", " ", "m", "u", "s", "t", " ", "b", "e", " ", "s", "t", "r", ",",
    " ", "b", "y", "t", "e", "s", " ", "o", "r", " ", "b", "y", "t", "e",
    "a", "r", "r", "a", "y", ",", " ", "n", "o", "t", " ", "N", "o", "n",
    "e", "T", "y", "p", "e">>

SummaryKey ==
    <<"s", "u", "m", "m", "a", "r", "y">>

DecisionsKey ==
    <<"k", "e", "y", "_", "d", "e", "c", "i", "s", "i", "o", "n", "s">>

ActionsKey ==
    <<"a", "c", "t", "i", "o", "n", "_", "i", "t", "e", "m", "s">>

TEST_AUDIO_PATH ==
    <<"d", "a", "t", "a", "/", "m", "e", "e", "t", "i", "n", "g", "_", "a",
    "u", "d", "i", "o", ".", "m", "p", "3">>

(***************************************************************************)
(* Python str and JSON-decoded values                                      *)
(***************************************************************************)
\* needle in hay, for two str operands
Contains(needle, hay) ==
    \E i \in 0..Len(hay) :
        /\ i + Len(needle) <= Len(hay)
        /\ SubSeq(hay, i + 1, i + Len(needle)) = needle

PyNone == [type |-> "null", s |-> <<>>, items |-> <<>>]
PyStr(str) == [type |-> "str", s |-> str, items |-> <<>>]
PyNum(digits) == [type |-> "num", s |-> digits, items |-> <<>>]
\* True or False; s is its str()
PyBool(str) == [type |-> "bool", s |-> str, items |-> <<>>]
\* float("nan"), float("inf") or float("-inf"); s is its str()
PyFloat(str) == [type |-> "float", s |-> str, items |-> <<>>]
PyList(elems) == [type |-> "list", s |-> <<>>, items |-> elems]
\* a dict: its items in insertion order, each [k |-> key, v |-> value]
PyDict(members) == [type |-> "dict", s |-> <<>>, items |-> members]

DictKeys(dct) == {dct.items[i].k : i \in 1..Len(dct.items)}
HasKey(dct, key) == dct.type = "dict" /\ key \in DictKeys(dct)
DictGet(dct, key) ==
    dct.items[CHOOSE i \in 1..Len(dct.items) : dct.items[i].k = key].v
\* d[key] = val: a key already present keeps its place and takes the value
DictSet(members, key, val) ==
    IF \E i \in 1..Len(members) : members[i].k = key
    THEN [i \in 1..Len(members) |->
            IF members[i].k = key THEN [k |-> key, v |-> val] ELSE members[i]]
    ELSE Append(members, [k |-> key, v |-> val])

(***************************************************************************)
(* json.loads, on the token sequence of the body                           *)
(***************************************************************************)
Tok(kind) == [t |-> kind, v |-> <<>>]
TStr(str) == [t |-> "str", v |-> str]
TNum(digits) == [t |-> "num", v |-> digits]
TWord(str) == [t |-> "word", v |-> str]

\* The literals json.loads accepts besides strings and numbers, each with
\* the Python value it decodes to: null, true, false and, beyond the JSON
\* grammar, NaN, Infinity and -Infinity.
W_null == <<"n", "u", "l", "l">>
W_true == <<"t", "r", "u", "e">>
W_false == <<"f", "a", "l", "s", "e">>
W_NaN == <<"N", "a", "N">>
W_Infinity == <<"I", "n", "f", "i", "n", "i", "t", "y">>
W_NegInfinity == <<"-">> \o W_Infinity
Literals ==
    <<[name |-> "null", w |-> W_null, val |-> PyNone],
      [name |-> "true", w |-> W_true,
       val |-> PyBool(<<"T", "r", "u", "e">>)],
      [name |-> "false", w |-> W_false,
       val |-> PyBool(<<"F", "a", "l", "s", "e">>)],
      [name |-> "NaN", w |-> W_NaN, val |-> PyFloat(<<"n", "a", "n">>)],
      [name |-> "Infinity", w |-> W_Infinity,
       val |-> PyFloat(<<"i", "n", "f">>)],
      [name |-> "-Infinity", w |-> W_NegInfinity,
       val |-> PyFloat(<<"-", "i", "n", "f">>)]>>
\* a token spells a literal by its kind or, a bare word, by its letters
Spells(tok, lit) ==
    tok.t = lit.name \/ (tok.t = "word" /\ tok.v = lit.w)
IsLiteral(tok) == \E n \in 1..Len(Literals) : Spells(tok, Literals[n])
LiteralValue(tok) ==
    Literals[CHOOSE n \in 1..Len(Literals) : Spells(tok, Literals[n])].val

ParseFail == [ok |-> FALSE, val |-> PyNone, next |-> 0]
ParseOk(val, next) == [ok |-> TRUE, val |-> val, next |-> next]
Kind(toks, i) == IF i <= Len(toks) THEN toks[i].t ELSE "eof"

RECURSIVE ParseValue(_, _), ParseElems(_, _, _), ParseMembers(_, _, _)
ParseValue(toks, i) ==
    CASE Kind(toks, i) = "str" -> ParseOk(PyStr(toks[i].v), i + 1)
      [] Kind(toks, i) = "num" -> ParseOk(PyNum(toks[i].v), i + 1)
      [] i <= Len(toks) /\ IsLiteral(toks[i]) ->
            ParseOk(LiteralValue(toks[i]), i + 1)
      [] Kind(toks, i) = "[" ->
            IF Kind(toks, i + 1) = "]"
            THEN ParseOk(PyList(<<>>), i + 2)
            ELSE ParseElems(toks, i + 1, <<>>)
      [] Kind(toks, i) = "{" ->
            IF Kind(toks, i + 1) = "}"
            THEN ParseOk(PyDict(<<>>), i + 2)
            ELSE ParseMembers(toks, i + 1, <<>>)
      [] OTHER -> ParseFail

ParseElems(toks, i, acc) ==
    LET r == ParseValue(toks, i) IN
    IF ~r.ok THEN ParseFail
    ELSE CASE Kind(toks, r.next) = "," ->
                ParseElems(toks, r.next + 1, Append(acc, r.val))
           [] Kind(toks, r.next) = "]" ->
                ParseOk(PyList(Append(acc, r.val)), r.next + 1)
           [] OTHER -> ParseFail

ParseMembers(toks, i, acc) ==
    IF Kind(toks, i) # "str" \/ Kind(toks, i + 1) # ":" THEN ParseFail
    ELSE LET r == ParseValue(toks, i + 2) IN
         IF ~r.ok THEN ParseFail
         ELSE CASE Kind(toks, r.next) = "," ->
                     ParseMembers(toks, r.next + 1,
                                  DictSet(acc, toks[i].v, r.val))
                [] Kind(toks, r.next) = "}" ->
                     ParseOk(PyDict(DictSet(acc, toks[i].v, r.val)),
                             r.next + 1)
                [] OTHER -> ParseFail

\* [ok, val]: the decoded value, or ok = FALSE for json.JSONDecodeError
json_loads(toks) ==
    LET r == ParseValue(toks, 1) IN
    IF r.ok /\ r.next = Len(toks) + 1
    THEN [ok |-> TRUE, val |-> r.val]
    ELSE [ok |-> FALSE, val |-> PyNone]

(***************************************************************************)
(* MeetingSummarizer                                                       *)
(***************************************************************************)
\* {"error": msg}
ErrorResult(msg) == PyDict(<<[k |-> ErrorKey, v |-> PyStr(msg)]>>)

\* if gemini_api_key: an unset variable (None) and an empty one are falsy
Truthy(apiKey) == apiKey = "set"

\* __init__: the speech model is loaded inside try/except Exception, the
\* client is constructed outside any try.  whisper and client are the
\* outcomes of whisper.load_model and genai.Client ("ok" or "raise"), apiKey
\* is what os.getenv("GEMINI_API_KEY") finds.
MeetingSummarizerInit(whisper, apiKey, client) ==
    LET asr == IF whisper = "ok" THEN "Model" ELSE "None" IN
    IF Truthy(apiKey)
    THEN IF client = "ok"
         THEN [asr_model |-> asr, gemini_client |-> "Client", exc |-> "none"]
         ELSE [asr_model |-> asr, gemini_client |-> "None",
               exc |-> "ClientInitException"]
    ELSE [asr_model |-> asr, gemini_client |-> "None", exc |-> "none"]

\* Lines 44-53 with a decode failure that also drops the speech model
DecodeAttempt_DropsModel(asr, audio_path, decode) ==
    IF decode.kind = "text"
    THEN [ret |-> decode.text, via |-> "decoded", decoder |-> 1,
          exc |-> "none", asr_model |-> asr]
    ELSE [ret |-> DecodeErrPrefix \o decode.msg, via |-> "decode_error",
          decoder |-> 1, exc |-> "none", asr_model |-> "None"]

\* Lines 44-53: the decoder is invoked once; decode is its outcome, a text
\* or an exception with its message.
DecodeAttempt(asr, audio_path, decode) ==
    IF decode.kind = "text"
    THEN [ret |-> decode.text, via |-> "decoded", decoder |-> 1,
          exc |-> "none", asr_model |-> asr]
    ELSE [ret |-> DecodeErrPrefix \o decode.msg, via |-> "decode_error",
          decoder |-> 1, exc |-> "none", asr_model |-> asr]

\* transcribe_audio without the guard of lines 41-42
transcribe_audio_NoGuard(asr, audio_path, decode) ==
    DecodeAttempt(asr, audio_path, decode)

\* transcribe_audio: the returned str, the return statement taken, the
\* number of decoder invocations, and self.asr_model afterwards.
transcribe_audio(asr, audio_path, decode) ==
    IF asr = "None"
    THEN [ret |-> NotLoadedMsg, via |-> "not_loaded", decoder |-> 0,
          exc |-> "none", asr_model |-> asr]
    ELSE DecodeAttempt(asr, audio_path, decode)

\* Lines 83-106: one generate_content call and the handling of its outcome.
\* json is a local name of the function, bound by the import at line 93,
\* after the call: when the call raises anything but APIError, evaluating
\* json.JSONDecodeError in the second except clause raises
\* UnboundLocalError, which leaves the function.
RemoteAttempt(client, transcript, remote) ==
    CASE remote.kind = "APIError" ->
            [ret |-> ErrorResult(ApiErrPrefix \o remote.msg), returned |-> TRUE,
             remoteCalls |-> 1, exc |-> "none", gemini_client |-> client]
      [] remote.kind = "OtherError" ->
            [ret |-> PyNone, returned |-> FALSE,
             remoteCalls |-> 1, exc |-> "UnboundLocalError",
             gemini_client |-> client]
      [] remote.kind = "NoText" ->
            [ret |-> ErrorResult(UnexpectedPrefix \o NoneTypeMsg),
             returned |-> TRUE,
             remoteCalls |-> 1, exc |-> "none", gemini_client |-> client]
      [] remote.kind = "Response" ->
            LET parsed == json_loads(remote.body) IN
            [ret |-> IF parsed.ok THEN parsed.val
                     ELSE ErrorResult(InvalidJsonMsg),
             returned |-> TRUE,
             remoteCalls |-> 1, exc |-> "none", gemini_client |-> client]

\* summarize_transcript without the guard of lines 62-63
summarize_transcript_NoGuard(client, transcript, remote) ==
    RemoteAttempt(client, transcript, remote)

\* summarize_transcript: the returned value (when it returns), the number
\* of generate_content calls, the exception that leaves it, and
\* self.gemini_client afterwards.
summarize_transcript(client, transcript, remote) ==
    IF client = "None"
    THEN [ret |-> ErrorResult(ClientNotInitMsg), returned |-> TRUE,
          remoteCalls |-> 0, exc |-> "none", gemini_client |-> client]
    ELSE RemoteAttempt(client, transcript, remote)

(***************************************************************************)
(* The run's handling of the result, lines 135-147                          *)
(***************************************************************************)
\* "error" in summary_output: a key of a dict, an element of a list, a
\* substring of a str; TypeError for a number, a bool or None
ErrorIn(out) ==
    CASE out.type = "dict" -> IF HasKey(out, ErrorKey) THEN "yes" ELSE "no"
      [] out.type = "list" ->
            IF \E i \in 1..Len(out.items) : out.items[i] = PyStr(ErrorKey)
            THEN "yes" ELSE "no"
      [] out.type = "str" -> IF Contains(ErrorKey, out.s) THEN "yes" ELSE "no"
      [] OTHER -> "TypeError"

\* enumerate(summary_output.get(key, [])) raises TypeError for a value that
\* is not iterable
Iterable(out, key) ==
    ~HasKey(out, key) \/ DictGet(out, key).type \in {"list", "str", "dict"}

\* [state, exc] after lines 135-147
ResultHandling(out) ==
    CASE ErrorIn(out) = "TypeError" ->
            [state |-> "Crashed", exc |-> "TypeError"]
      [] ErrorIn(out) = "yes" ->
            IF out.type = "dict"
            THEN [state |-> "SummaryFailed", exc |-> "none"]
            ELSE [state |-> "Crashed", exc |-> "TypeError"]
      [] ErrorIn(out) = "no" ->
            IF out.type # "dict"
            THEN [state |-> "Crashed", exc |-> "AttributeError"]
            ELSE IF Iterable(out, DecisionsKey) /\ Iterable(out, ActionsKey)
                 THEN [state |-> "Done", exc |-> "none"]
                 ELSE [state |-> "Crashed", exc |-> "TypeError"]

(***************************************************************************)
(* Inputs: what the environment can hand to the program                    *)
(***************************************************************************)
OtherAudioPath ==
    <<"b", ".", "w", "a", "v">>

T_Launch ==
    <<"W", "e", " ", "d", "e", "c", "i", "d", "e", "d", " ", "t", "o", " ",
    "l", "a", "u", "n", "c", "h", " ", "F", "r", "i", "d", "a", "y", ".">>

T_ErrorTalk ==
    <<"E", "r", "r", "o", "r", " ", "4", "0", "4", " ", "w", "a", "s", " ",
    "f", "i", "x", "e", "d", ".">>

T_LowerError ==
    <<"n", "o", " ", "e", "r", "r", "o", "r", " ", "h", "e", "r", "e">>

M_BadCodec ==
    <<"b", "a", "d", " ", "c", "o", "d", "e", "c">>

M_NoFile ==
    <<"n", "o", " ", "f", "i", "l", "e">>

M_Quota ==
    <<"4", "2", "9", " ", "q", "u", "o", "t", "a">>

M_NetDown ==
    <<"n", "e", "t", " ", "d", "o", "w", "n">>

S_Dots ==
    <<".", ".", ".">>

S_LaunchFriday ==
    <<"L", "a", "u", "n", "c", "h", " ", "F", "r", "i", "d", "a", "y">>

S_AliceDeck ==
    <<"A", "l", "i", "c", "e", ":", " ", "p", "r", "e", "p", "a", "r", "e",
    " ", "d", "e", "c", "k">>

S_AnError ==
    <<"a", "n", " ", "e", "r", "r", "o", "r", " ", "o", "c", "c", "u", "r",
    "r", "e", "d">>

S_Five ==
    <<"5">>

S_Sorry ==
    <<"S", "o", "r", "r", "y">>

InitOutcomes == {"ok", "raise"}
ApiKeys == {"unset", "empty", "set"}
AudioPaths == {TEST_AUDIO_PATH, OtherAudioPath}

\* texts the decoder returns: silence, plain speech, speech that says
\* "Error", speech that says "error"
DecodedTexts == {<<>>, T_Launch, T_ErrorTalk, T_LowerError}
DecodeErrors == {M_BadCodec, M_NoFile}
DecodeOutcomes ==
    {[kind |-> "text", text |-> t, msg |-> <<>>] : t \in DecodedTexts}
    \cup {[kind |-> "raise", text |-> <<>>, msg |-> m] : m \in DecodeErrors}

\* transcripts a caller passes to summarize_transcript
Transcripts == {<<>>, T_Launch, T_ErrorTalk, NotLoadedMsg}

FullMembers ==
    <<TStr(SummaryKey), Tok(":"), TStr(S_Dots), Tok(","),
      TStr(DecisionsKey), Tok(":"),
          Tok("["), TStr(S_LaunchFriday), Tok("]"), Tok(","),
      TStr(ActionsKey), Tok(":"),
          Tok("["), TStr(S_AliceDeck), Tok("]")>>
B_Full == <<Tok("{")>> \o FullMembers \o <<Tok("}")>>
B_SummaryOnly ==
    <<Tok("{"), TStr(SummaryKey), Tok(":"), TStr(S_Dots), Tok("}")>>
B_EmptyObject == <<Tok("{"), Tok("}")>>
B_ErrorAndFields ==
    <<Tok("{"), TStr(ErrorKey), Tok(":"), TStr(S_Sorry), Tok(",")>>
    \o FullMembers \o <<Tok("}")>>
B_ErrorOnly ==
    <<Tok("{"), TStr(ErrorKey), Tok(":"), TStr(S_Sorry), Tok("}")>>
B_NullDecisions ==
    <<Tok("{"), TStr(SummaryKey), Tok(":"), TStr(S_Dots), Tok(","),
      TStr(DecisionsKey), Tok(":"), Tok("null"), Tok("}")>>
B_DuplicateKey ==
    <<Tok("{"), TStr(SummaryKey), Tok(":"), TStr(S_Sorry), Tok(",")>>
    \o FullMembers \o <<Tok("}")>>
B_Array == <<Tok("["), TStr(S_LaunchFriday), Tok(","), TStr(S_AliceDeck),
             Tok("]")>>
B_ArrayError == <<Tok("["), TStr(ErrorKey), Tok("]")>>
B_String == <<TStr(S_LaunchFriday)>>
B_StringError == <<TStr(S_AnError)>>
B_Number == <<TNum(S_Five)>>
B_Null == <<Tok("null")>>
B_True == <<TWord(W_true)>>
B_SummaryTrue ==
    <<Tok("{"), TStr(SummaryKey), Tok(":"), Tok("true"), Tok("}")>>
B_DecisionsFalse ==
    <<Tok("{"), TStr(DecisionsKey), Tok(":"), TWord(W_false), Tok("}")>>
B_NaN == <<TWord(W_NaN)>>
B_NegInfinity == <<Tok("-Infinity")>>
B_Truncated == <<Tok("{"), TStr(SummaryKey), Tok(":")>>
B_FreeText == <<TWord(S_Sorry)>>
B_Trailing == B_EmptyObject \o <<Tok("}")>>
B_Empty == <<>>

Bodies ==
    {B_Full, B_SummaryOnly, B_EmptyObject, B_ErrorAndFields, B_ErrorOnly,
     B_NullDecisions, B_DuplicateKey, B_Array, B_ArrayError, B_String,
     B_StringError, B_Number, B_Null, B_True, B_SummaryTrue,
     B_DecisionsFalse, B_NaN, B_NegInfinity, B_Truncated, B_FreeText, B_Trailing,
     B_Empty}

\* outcomes of models.generate_content followed by response.text
RemoteOutcomes ==
    {[kind |-> "APIError", msg |-> M_Quota, body |-> <<>>],
     [kind |-> "OtherError", msg |-> M_NetDown, body |-> <<>>],
     [kind |-> "NoText", msg |-> <<>>, body |-> <<>>]}
    \cup {[kind |-> "Response", msg |-> <<>>, body |-> b] : b \in Bodies}

(***************************************************************************)
(* State and steps                                                         *)
(***************************************************************************)
NoCall == [op |-> "none", arg |-> <<>>, decoder |-> 0, remote |-> 0]

Init ==
    /\ pc = "Idle"
    /\ env = [whisper |-> "unset", apiKey |-> "unset", client |-> "unset"]
    /\ asr_model = "None"
    /\ gemini_client = "None"
    /\ transcript_text = <<>>
    /\ tr_via = "none"
    /\ summary_output = PyNone
    /\ exc = "none"
    /\ transcribeCalls = 0
    /\ summarizeCalls = 0
    /\ decoderCalls = 0
    /\ genCalls = 0
    /\ lastCall = NoCall

\* summarizer = MeetingSummarizer(); next is where the caller goes on when
\* the constructor returns
Construct(next) ==
    /\ pc = "Idle"
    /\ \E w \in InitOutcomes, k \in ApiKeys, c \in InitOutcomes :
         LET r == MeetingSummarizerInit(w, k, c) IN
         /\ env' = [whisper |-> w, apiKey |-> k,
                    client |-> IF Truthy(k) THEN c ELSE "not_called"]
         /\ asr_model' = r.asr_model
         /\ gemini_client' = r.gemini_client
         /\ exc' = r.exc
         /\ pc' = IF r.exc = "none" THEN next ELSE "Crashed"
    /\ lastCall' = [NoCall EXCEPT !.op = "init"]
    /\ UNCHANGED <<transcript_text, tr_via, summary_output, transcribeCalls,
                   summarizeCalls, decoderCalls, genCalls>>

\* a call of transcribe_audio(path); next is where the caller goes on
Transcribe(path, next) ==
    \E decode \in DecodeOutcomes :
      LET r == transcribe_audio(asr_model, path, decode) IN
      /\ transcript_text' = r.ret
      /\ tr_via' = r.via
      /\ asr_model' = r.asr_model
      /\ exc' = r.exc
      /\ transcribeCalls' = transcribeCalls + 1
      /\ decoderCalls' = decoderCalls + r.decoder
      /\ lastCall' = [op |-> "transcribe", arg |-> path,
                      decoder |-> r.decoder, remote |-> 0]
      /\ pc' = next
      /\ UNCHANGED <<env, gemini_client, summary_output, summarizeCalls,
                     genCalls>>

\* a call of summarize_transcript(transcript); the caller goes on at next
\* when it returns and at raised when an exception leaves it
Summarize(transcript, next, raised) ==
    \E remote \in RemoteOutcomes :
      LET r == summarize_transcript(gemini_client, transcript, remote) IN
      /\ summary_output' = IF r.returned THEN r.ret ELSE summary_output
      /\ gemini_client' = r.gemini_client
      /\ exc' = r.exc
      /\ summarizeCalls' = summarizeCalls + 1
      /\ genCalls' = genCalls + r.remoteCalls
      /\ lastCall' = [op |-> "summarize", arg |-> transcript,
                      decoder |-> 0, remote |-> r.remoteCalls]
      /\ pc' = IF r.returned THEN next ELSE raised
      /\ UNCHANGED <<env, asr_model, transcript_text, tr_via,
                     transcribeCalls, decoderCalls>>

(***************************************************************************)
(* The __main__ run, lines 119-147                                         *)
(***************************************************************************)
\* line 119
RunConstruct == Construct("Transcribing")

\* line 122
RunTranscribe ==
    /\ pc = "Transcribing"
    /\ Transcribe(TEST_AUDIO_PATH, "Gate")

\* line 124: if "Error" in transcript_text
RunGate ==
    /\ pc = "Gate"
    /\ pc' = IF Contains(ErrorWord, transcript_text)
             THEN "TranscriptionFailed" ELSE "Transcribed"
    /\ UNCHANGED <<env, asr_model, gemini_client, transcript_text, tr_via,
                   summary_output, exc, transcribeCalls, summarizeCalls,
                   decoderCalls, genCalls, lastCall>>

\* line 132; an exception that leaves summarize_transcript ends the run
RunSummarize ==
    /\ pc = "Transcribed"
    /\ Summarize(transcript_text, "Summarized", "Crashed")

\* lines 135-147
RunReport ==
    /\ pc = "Summarized"
    /\ LET h == ResultHandling(summary_output) IN
       /\ pc' = h.state
       /\ exc' = h.exc
    /\ UNCHANGED <<env, asr_model, gemini_client, transcript_text, tr_via,
                   summary_output, transcribeCalls, summarizeCalls,
                   decoderCalls, genCalls, lastCall>>

Next ==
    \/ RunConstruct
    \/ RunTranscribe
    \/ RunGate
    \/ RunSummarize
    \/ RunReport

Spec == Init /\ [][Next]_vars

(***************************************************************************)
(* Any caller: one object, up to MaxCalls method calls in any order        *)
(***************************************************************************)
CallConstruct == Construct("Ready")

CallTranscribe ==
    /\ pc = "Ready"
    /\ transcribeCalls + summarizeCalls < MaxCalls
    /\ \E path \in AudioPaths : Transcribe(path, "Ready")

\* a caller that catches what summarize_transcript raises keeps the object
CallSummarize ==
    /\ pc = "Ready"
    /\ transcribeCalls + summarizeCalls < MaxCalls
    /\ \E transcript \in Transcripts : Summarize(transcript, "Ready", "Ready")

NextCalls ==
    \/ CallConstruct
    \/ CallTranscribe
    \/ CallSummarize

SpecCalls == Init /\ [][NextCalls]_vars

(***************************************************************************)
(* Properties                                                              *)
(***************************************************************************)
TranscriptionFailedInCall == tr_via \in {"not_loaded", "decode_error"}

RunEnded == pc \in {"TranscriptionFailed", "SummaryFailed", "Done", "Crashed"}

\* C1: in a run, after a transcription failure (the speech model was never
\* loaded, or the decoder raised) summarize_transcript is invoked zero
\* times and the run ends in TranscriptionFailed.
C1_NoSummaryAfterTranscriptionFailure ==
    TranscriptionFailedInCall =>
        /\ summarizeCalls = 0
        /\ (RunEnded => pc = "TranscriptionFailed")

\* C2: no exception leaves summarize_transcript, whatever the remote call
\* or the parse of its response does.
C2_SummarizeNeverRaises ==
    lastCall.op = "summarize" => exc = "none"

\* A Success carries summary, key_decisions and action_items and no error.
IsSuccess(out) ==
    /\ out.type = "dict"
    /\ {SummaryKey, DecisionsKey, ActionsKey} \subseteq DictKeys(out)
    /\ ErrorKey \notin DictKeys(out)

\* A Failure carries the error and none of the three fields.
IsFailure(out) ==
    /\ out.type = "dict"
    /\ ErrorKey \in DictKeys(out)
    /\ DictKeys(out) \cap {SummaryKey, DecisionsKey, ActionsKey} = {}

\* C3: a value returned by summarize_transcript is a full Success or a
\* Failure with no field of a summary, never something in between.
C3_NeverPartiallyPopulated ==
    (lastCall.op = "summarize" /\ exc = "none") =>
        (IsSuccess(summary_output) \/ IsFailure(summary_output))

\* C4: with no client (no credential at initialisation), every call of
\* summarize_transcript returns the "client not initialized" error and no
\* generate_content call is ever made.
C4_UnavailableWithoutRemoteCall ==
    (gemini_client = "None" /\ lastCall.op = "summarize") =>
        /\ exc = "none"
        /\ summary_output =
             PyDict(<<[k |-> ErrorKey, v |-> PyStr(ClientNotInitMsg)]>>)
        /\ lastCall.remote = 0
        /\ genCalls = 0

\* C4 witness: a second summarize_transcript call, on a non-empty
\* transcript, made without a client.
C4_Witness ==
    /\ gemini_client = "None"
    /\ env.apiKey # "set"
    /\ lastCall.op = "summarize"
    /\ lastCall.arg = T_Launch
    /\ summarizeCalls = 2

\* C5: when the speech model failed to load, every call of transcribe_audio
\* returns the same fixed message, for every path, without invoking the
\* decoder and without raising.
C5_NotLoadedFixedReturn ==
    (asr_model = "None" /\ lastCall.op = "transcribe") =>
        /\ transcript_text = NotLoadedMsg
        /\ tr_via = "not_loaded"
        /\ lastCall.decoder = 0
        /\ decoderCalls = 0
        /\ exc = "none"

\* C5 witness: a second transcribe_audio call, on another path, after the
\* speech model failed to load.
C5_Witness ==
    /\ env.whisper = "raise"
    /\ asr_model = "None"
    /\ lastCall.op = "transcribe"
    /\ lastCall.arg = OtherAudioPath
    /\ transcribeCalls = 2

\* C6: a text the decoder returned, whatever it says, is never classified
\* as a failed transcription by the run.
C6_DecodedTextNeverClassifiedFailed ==
    (tr_via = "decoded" /\ transcript_text # <<>>) =>
        pc # "TranscriptionFailed"

\* C7: in a run, summarize_transcript is invoked only if the transcription
\* produced a non-empty text.
C7_SummarizeOnlyOnNonEmptyText ==
    summarizeCalls > 0 => transcript_text # <<>>

\* C8: the constructor completes for every outcome of loading the speech
\* model and of constructing the client, and the engine that failed is
\* None.
C8_InitFailSoft ==
    pc # "Idle" =>
        /\ exc # "ClientInitException"
        /\ (env.whisper = "raise" => asr_model = "None")
        /\ (~(Truthy(env.apiKey) /\ env.client = "ok") =>
                gemini_client = "None")

\* C9: in a run the remote model is called at most once, only after
\* transcribe_audio has returned, and the run then ends in Done or
\* SummaryFailed (Summarized is the point where the returned value is about
\* to be classified).
C9_OneRemoteCallThenTerminal ==
    /\ genCalls <= 1
    /\ (genCalls = 1 =>
          /\ tr_via # "none"
          /\ pc \in {"Summarized", "Done", "SummaryFailed"})

\* C10: once the constructor has returned, no call of transcribe_audio or
\* summarize_transcript changes asr_model or gemini_client.
C10_AvailabilityFixedAfterInit ==
    [][pc = "Ready" =>
         (asr_model' = asr_model /\ gemini_client' = gemini_client)]_vars

\* C10 witness: both engines available, a decode failure and then a failed
\* summarization behind them.
C10_Witness ==
    /\ asr_model = "Model"
    /\ gemini_client = "Client"
    /\ tr_via = "decode_error"
    /\ lastCall.op = "summarize"
    /\ lastCall.remote = 1
    /\ HasKey(summary_output, ErrorKey)
=============================================================================
